---- MODULE Spec2Model ----
(***************************************************************************)
(* mud: module dependency aggregator and descriptor synthesizer.           *)
(*                                                                         *)
(* Strings are sequences of one-character strings, so that HasPrefix,      *)
(* HasSuffix, IndexByte, TrimPrefix, Split, Join and the byte-wise string  *)
(* order are computed as the Go code computes them.                        *)
(***************************************************************************)
EXTENDS FiniteSets, Integers, Sequences, TLC

(* ----------------------------- strings --------------------------------- *)

\* ASCII code of the characters that occur in the paths of the model.
Ord(c) ==
  CASE c = "\"" -> 34 [] c = "'" -> 39 [] c = "-" -> 45 [] c = "." -> 46
    [] c = "/" -> 47 [] c = "1" -> 49 [] c = "2" -> 50 [] c = "_" -> 95
    [] c = "a" -> 97 [] c = "b" -> 98 [] c = "c" -> 99 [] c = "d" -> 100
    [] c = "e" -> 101 [] c = "f" -> 102 [] c = "g" -> 103 [] c = "h" -> 104
    [] c = "i" -> 105 [] c = "k" -> 107 [] c = "l" -> 108 [] c = "m" -> 109
    [] c = "n" -> 110 [] c = "o" -> 111 [] c = "p" -> 112 [] c = "q" -> 113
    [] c = "r" -> 114 [] c = "s" -> 115 [] c = "t" -> 116 [] c = "u" -> 117
    [] c = "v" -> 118
    [] c = "w" -> 119 [] c = "x" -> 120 [] c = "y" -> 121 [] c = "z" -> 122

\* xs[i] < xs[j] on Go strings: byte-wise lexicographic order.
RECURSIVE LessFrom(_, _, _)
LessFrom(x, y, i) ==
  IF i > Len(y) THEN FALSE
  ELSE IF i > Len(x) THEN TRUE
  ELSE IF Ord(x[i]) # Ord(y[i]) THEN Ord(x[i]) < Ord(y[i])
  ELSE LessFrom(x, y, i + 1)

Greater(x, y) == LessFrom(y, x, 1)

Less(x, y) == LessFrom(x, y, 1)

HasPrefix(s, p) == Len(s) >= Len(p) /\ SubSeq(s, 1, Len(p)) = p

HasSuffix(s, p) ==
  Len(s) >= Len(p) /\ SubSeq(s, Len(s) - Len(p) + 1, Len(s)) = p

TrimPrefix(s, p) == IF HasPrefix(s, p) THEN SubSeq(s, Len(p) + 1, Len(s)) ELSE s

\* strings.IndexByte: 0-based index of the first c in s, -1 when there is none.
IndexByte(s, c) ==
  IF \E i \in 1..Len(s) : s[i] = c
  THEN (CHOOSE i \in 1..Len(s) : s[i] = c /\ \A j \in 1..(i - 1) : s[j] # c) - 1
  ELSE -1

\* strings.Split(s, "/")
RECURSIVE Split(_)
Split(s) ==
  LET i == IndexByte(s, "/")
  IN  IF i = -1 THEN <<s>>
      ELSE <<SubSeq(s, 1, i)>> \o Split(SubSeq(s, i + 2, Len(s)))

\* strings.Join(names, ".")
RECURSIVE Join(_)
Join(names) ==
  IF Len(names) = 0 THEN <<>>
  ELSE IF Len(names) = 1 THEN names[1]
  ELSE names[1] \o <<".">> \o Join(Tail(names))

(* ------------------------ sorting and sets ----------------------------- *)

RECURSIVE SeqOfSet(_)
SeqOfSet(S) ==
  IF S = {} THEN <<>>
  ELSE LET x == CHOOSE y \in S : TRUE IN <<x>> \o SeqOfSet(S \ {x})

Range(s) == {s[i] : i \in 1..Len(s)}

RECURSIVE Insert(_, _)
Insert(sorted, x) ==
  IF Len(sorted) = 0 THEN <<x>>
  ELSE IF Less(x, Head(sorted)) THEN <<x>> \o sorted
  ELSE <<Head(sorted)>> \o Insert(Tail(sorted), x)

\* sortPaths: sort.Slice(xs, xs[i] < xs[j]); keeps duplicates.
RECURSIVE sortPaths(_)
sortPaths(xs) ==
  IF Len(xs) = 0 THEN <<>>
  ELSE Insert(sortPaths(Tail(xs)), Head(xs))

(* --------------------- identifiers of the output ----------------------- *)

IsLetter(c) == Ord(c) \in 97..122 \/ Ord(c) \in 65..90

IsDigit(c) == Ord(c) \in 48..57

\* nixIdentRe: ^[a-zA-Z\_][a-zA-Z0-9\_\'\-]*$
nixIdentRe(name) ==
  /\ Len(name) >= 1
  /\ IsLetter(name[1]) \/ name[1] = "_"
  /\ \A i \in 2..Len(name) :
       IsLetter(name[i]) \/ IsDigit(name[i]) \/ name[i] \in {"_", "'", "-"}

nixKeyword ==
  { <<"i","f">>, <<"t","h","e","n">>, <<"e","l","s","e">>,
    <<"a","s","s","e","r","t">>, <<"w","i","t","h">>, <<"l","e","t">>,
    <<"i","n">>, <<"r","e","c">>, <<"i","n","h","e","r","i","t">>,
    <<"o","r">> }

\* fmt.Sprintf("%q", name) for a name without quotes, backslashes or
\* control characters (an import path has none).
Quote(name) == <<"\"">> \o name \o <<"\"">>

\* Path.NixAttr
NixAttr(p) ==
  LET names == Split(p)
      fixed == [i \in 1..Len(names) |->
                  IF ~nixIdentRe(names[i]) \/ names[i] \in nixKeyword
                  THEN Quote(names[i]) ELSE names[i]]
  IN  Join(fixed)

(* ------------------------ the loaded workspace ------------------------- *)

ExamplePrefix == <<"e","x","a","m","p","l","e",".","c","o","m","/">>
ThirdParty == <<"t","h","i","r","d","_","p","a","r","t","y","/","g","o","p","k","g","s">>
DotTest == <<".","t","e","s","t">>
UnderTest == <<"_","t","e","s","t">>

WsMod == ExamplePrefix \o <<"w">>
ModA == <<"a",".","x","/","f">>
ModB == <<"b",".","x","/","g">>
ModC == <<"c",".","x">>
ModulePaths == {WsMod, ModA, ModB, ModC}

\* packages.Package as the loader returns it: PkgPath, Name, and the path of
\* Module (NoModule when pkg.Module is nil; no module has the empty path).
NoModule == <<>>

PkgIds ==
  {"w", "p.test", "p_test", "p", "q", "g", "in", "h", "z.test", "n", "fmt", "io"}

PkgPath(id) ==
  CASE id = "w" -> WsMod
    [] id = "p.test" -> ModA \o <<"/","p">> \o DotTest
    [] id = "p_test" -> ModA \o <<"/","p">> \o UnderTest
    [] id = "p" -> ModA \o <<"/","p">>
    [] id = "q" -> ModA \o <<"/","q">>
    [] id = "g" -> ModB
    [] id = "in" -> ModB \o <<"/","i","n">>
    [] id = "h" -> ModC \o <<"/","h">>
    [] id = "z.test" -> <<"d",".","x","/","z">> \o DotTest
    [] id = "n" -> <<"d",".","x","/","n">>
    [] id = "fmt" -> <<"f","m","t">>
    [] id = "io" -> <<"i","o">>

PkgName(id) ==
  CASE id = "w" -> "main"
    [] id = "p.test" -> "main"
    [] id = "p_test" -> "p_test"
    [] id = "z.test" -> "z"
    [] OTHER -> id

PkgModule(id) ==
  CASE id = "w" -> WsMod
    [] id \in {"p", "q"} -> ModA
    [] id \in {"g", "in"} -> ModB
    [] id = "h" -> ModC
    [] OTHER -> NoModule

\* The imports a package of the workspace may have: acyclic (Go rejects
\* import cycles), the standard library imports only itself, and the two
\* synthetic test packages are imported by nothing but the test binary.
CandidateImports(id) ==
  CASE id = "w" -> {"p", "g", "fmt", "n", "z.test"}
    [] id = "p.test" -> {"p_test", "p"}
    [] id = "p_test" -> {"g"}
    [] id = "p" -> {"q", "g", "in", "h"}
    [] id = "q" -> {"g", "in"}
    [] id = "g" -> {"in"}
    [] id = "fmt" -> {"io"}
    [] OTHER -> {}

CandidateRoots == {"w", "p.test", "p", "q"}

\* How go.mod treats a module: not replaced, not downloaded (no Dir),
\* replaced by the vendored copy, by another relative directory, or by
\* another module.
ReplaceKinds == {"plain", "nodir", "vendored", "elsewhere", "remote"}

Conventional(path) == <<".","/">> \o ThirdParty \o <<"/">> \o path

\* packages.Module of module `path`.
ModuleInfo(path, kind, err) ==
  [ Path |-> path,
    Version |-> IF path = WsMod THEN <<>> ELSE <<"v","1">>,
    Dir |-> IF kind = "nodir" THEN <<>> ELSE <<"/","d">>,
    Replace |->
      CASE kind = "vendored" ->
             [Nil |-> FALSE, Path |-> Conventional(path), Version |-> <<>>]
        [] kind = "elsewhere" ->
             [Nil |-> FALSE, Path |-> <<".","/","v">>, Version |-> <<>>]
        [] kind = "remote" ->
             [Nil |-> FALSE, Path |-> <<"e",".","x","/","h">>, Version |-> <<"v","2">>]
        [] OTHER -> [Nil |-> TRUE, Path |-> <<>>, Version |-> <<>>],
    Error |-> err ]

(* ------------------------------ bounds --------------------------------- *)

\* The size of a loaded workspace: its roots, its imports, and its faults
\* (packages and modules with an error, modules go.mod treats specially).
MaxSize == 4

\* The longest payload handed to writeFile on its own.
MaxLines == 2

(* ------------------------------- state --------------------------------- *)

VARIABLES
  roots,      \* the packages packages.Load returns for the root patterns
  imports,    \* pkg.Imports of every package
  errs,       \* the packages with a non-empty pkg.Errors
  modErrs,    \* the modules with a non-nil Module.Error
  kind,       \* how go.mod treats each module (see ReplaceKinds)
  pc,         \* "walk", "output", "write", "exited"
  pending,    \* roots packages.Visit has not yet started from
  seen,       \* Visit's seen map
  stack,      \* Visit's recursion: <<[pkg, todo]>>, innermost last
  modules,    \* the registry: module path -> Module
  paths,      \* the sorted module paths of the output loop
  idx,        \* position of the output loop in paths
  buffer,     \* the rendered descriptor
  hashed,     \* modules whose ModSHA256 has been called
  written,    \* modules whose writeFile returned nil, in order
  exitCode,   \* -1 while running, else the exit status of the process
  cause,      \* why the process stopped
  fs,         \* the file system: file path -> File
  fs0,        \* the file system when the run started
  wpc,        \* position inside writeFile
  wdir,       \* writeFile's dir
  wdata,      \* writeFile's data
  anon,       \* the file tempfile.Open returned, not yet linked under a name
  werr,       \* whether writeFile returns an error
  prior       \* the file system when writeFile was called

loaded == <<roots, imports, errs, modErrs, kind, fs0>>
walkVars == <<pending, seen, stack, modules>>
outVars == <<paths, idx, buffer, hashed, written>>
writeVars == <<fs, wpc, wdir, wdata, anon, werr, prior>>
vars == <<loaded, walkVars, outVars, writeVars, pc, exitCode, cause>>

(* ------------------------- the loader's result ------------------------- *)

CandidateEdges == UNION {{<<p, q>> : q \in CandidateImports(p)} : p \in PkgIds}

ImportsOf(E) == [p \in PkgIds |-> {q \in PkgIds : <<p, q>> \in E}]

\* The packages of the graph packages.Load returns: the roots and all their
\* dependencies.
RECURSIVE Closure(_, _)
Closure(S, imp) ==
  LET T == S \cup UNION {imp[p] : p \in S}
  IN  IF T = S THEN S ELSE Closure(T, imp)

Loaded(rs, imp) == Closure(rs, imp)

(* ----------------------------- the program ---------------------------- *)

\* isBuiltin: no dot in the first path segment.
isBuiltin(pkg) ==
  LET importPath == PkgPath(pkg)
      i == IndexByte(importPath, "/")
      first == IF i # -1 THEN SubSeq(importPath, 1, i) ELSE importPath
  IN  IndexByte(first, ".") = -1

\* The pre function with its negation lost.
preInverted(pkg) == isBuiltin(pkg)

\* The pre function handed to packages.Visit.
pre(pkg) == ~isBuiltin(pkg)

\* pkgErrors without the module's error.
pkgErrorsNoModule(pkg, es, mes) == {<<"pkg", pkg>> : e \in es \cap {pkg}}

\* pkgErrors: the aggregated errors of pkg; {} is the nil error.
pkgErrors(pkg, es, mes) ==
  {<<"pkg", pkg>> : e \in es \cap {pkg}}
    \cup (IF PkgModule(pkg) # NoModule /\ PkgModule(pkg) \in mes
          THEN {<<"mod", PkgModule(pkg)>>} ELSE {})

\* The two kinds of module-less package the walk passes over.
IsSkippedAnyName(pkg) ==
  \/ HasSuffix(PkgPath(pkg), DotTest)
  \/ HasSuffix(PkgPath(pkg), UnderTest)

IsSkipped(pkg) ==
  \/ PkgName(pkg) = "main" /\ HasSuffix(PkgPath(pkg), DotTest)
  \/ HasSuffix(PkgPath(pkg), UnderTest)

\* The Module literal of main, with the replace directive applied and the
\* version prefix trimmed.
NewModule(info) ==
  LET replaced == ~info.Replace.Nil
  IN  [ Path |-> info.Path,
        Version |-> TrimPrefix(IF replaced THEN info.Replace.Version
                               ELSE info.Version, <<"v">>),
        Dir |-> info.Dir,
        ReplacePath |-> IF replaced THEN info.Replace.Path ELSE <<>>,
        Deps |-> <<>> ]

\* modules[mod.Path] = mod
Register(mods, mod) ==
  [k \in DOMAIN mods \cup {mod.Path} |-> IF k = mod.Path THEN mod ELSE mods[k]]

\* Module.Dep that hands out a fresh set every time.
DepFresh(m, d) ==
  [m EXCEPT !.Deps = [k \in DOMAIN m.Deps \cup {d} |->
                        IF k = d THEN {} ELSE m.Deps[k]]]

\* Module.Dep: m after m.Dep(d); m.Deps[d] is the set Dep returns.
Dep(m, d) ==
  IF d \in DOMAIN m.Deps THEN m
  ELSE [m EXCEPT !.Deps = [k \in DOMAIN m.Deps \cup {d} |->
                             IF k = d THEN {} ELSE m.Deps[k]]]

\* PackageSet.Add
Add(s, p) == s \cup {p}

\* The comparison of main's import loop without the module paths.
SameModuleNever(depMod, mod) == FALSE

\* depMod.Path == mod.Path
SameModule(depMod, mod) == depMod.Path = mod.Path

\* One import of the loop of main: mods after `dep` has been handled for the
\* module at modPath.
AddImport(mods, modPath, dep) ==
  IF isBuiltin(dep) THEN mods
  ELSE LET depMod == mods[PkgModule(dep)]
           mod == mods[modPath]
       IN  IF SameModule(depMod, mod) THEN mods
           ELSE LET m1 == Dep(mod, depMod.Path)
                    m2 == [m1 EXCEPT !.Deps[depMod.Path] =
                                       Add(m1.Deps[depMod.Path], PkgPath(dep))]
                IN  [mods EXCEPT ![modPath] = m2]

RECURSIVE AddImports(_, _, _)
AddImports(mods, modPath, deps) ==
  IF Len(deps) = 0 THEN mods
  ELSE AddImports(AddImport(mods, modPath, Head(deps)), modPath, Tail(deps))

\* An import whose module lookup yields nil: dep.Module is nil, or
\* modules[dep.Module.Path] is.
NilLookup(mods, dep) ==
  /\ ~isBuiltin(dep)
  /\ PkgModule(dep) = NoModule \/ PkgModule(dep) \notin DOMAIN mods

\* The post function handed to packages.Visit: the registry after pkg, or
\* the panic that ends the process.
Post(mods, pkg, imp, es, mes, kinds) ==
  IF isBuiltin(pkg) THEN [panic |-> "", mods |-> mods]
  ELSE IF pkgErrors(pkg, es, mes) # {} THEN [panic |-> "errors", mods |-> mods]
  ELSE IF PkgModule(pkg) = NoModule
       THEN IF IsSkipped(pkg) THEN [panic |-> "", mods |-> mods]
            ELSE [panic |-> "package without a module", mods |-> mods]
  ELSE LET path == PkgModule(pkg)
           info == ModuleInfo(path, kinds[path], path \in mes)
           mods1 == IF path \in DOMAIN mods THEN mods
                    ELSE Register(mods, NewModule(info))
       IN  IF \E dep \in imp[pkg] : NilLookup(mods1, dep)
           THEN [panic |-> "nil dereference", mods |-> mods1]
           ELSE [panic |-> "", mods |-> AddImports(mods1, path, SeqOfSet(imp[pkg]))]

\* Module.IsExternal
IsExternalAlways(m) == TRUE

IsExternal(m) == ~HasPrefix(m.Path, ExamplePrefix)

\* Module.Imports with the slice set, not appended to, for every dependency.
ImportsOfOneDep(m) ==
  IF DOMAIN m.Deps = {} THEN <<>>
  ELSE sortPaths(SeqOfSet(m.Deps[CHOOSE d \in DOMAIN m.Deps : TRUE]))

\* Module.Imports
Imports(m) ==
  LET RECURSIVE Flat(_)
      Flat(ks) == IF Len(ks) = 0 THEN <<>>
                  ELSE SeqOfSet(m.Deps[Head(ks)]) \o Flat(Tail(ks))
  IN  sortPaths(Flat(SeqOfSet(DOMAIN m.Deps)))

\* slashpath.Join("third_party/gopkgs", path) for a clean module path.
OutDir(path) == ThirdParty \o <<"/">> \o path

DefaultNix == <<"d","e","f","a","u","l","t",".","n","i","x">>
TmpSuffix == <<".","t","m","p">>

\* filepath.Join(dir, name)
FileName(dir, name) == dir \o <<"/">> \o name

\* base32 of the sha256 of the dump of the directory tree at dir: a value
\* that depends on the tree and on nothing else.
Digest(dir) == <<"sha256", dir>>

\* Module.ModSHA256, for a module with a Dir.
ModSHA256(m) == Digest(m.Dir)

\* The template applied to m: one entry per line of the descriptor.
Render(m) ==
  LET imps == Imports(m)
  IN  << <<"path", m.Path>>, <<"version", m.Version>>, <<"sha256", ModSHA256(m)>> >>
      \o (IF Len(imps) = 0 THEN <<>>
          ELSE << <<"deps", <<>> >> >>
               \o [i \in 1..Len(imps) |-> <<"gopkgs", NixAttr(imps[i])>>]
               \o << <<"end", <<>> >> >>)

(* ------------------------------ files ---------------------------------- *)

Absent == [exists |-> FALSE, data |-> <<>>]
File(data) == [exists |-> TRUE, data |-> data]
OldData == << <<"path", <<"o","l","d">> >> >>
StaleData == << <<"path", <<"t","m","p">> >> >>

FinalOf(dir) == FileName(dir, DefaultNix)
TmpOf(dir) == FileName(dir, DefaultNix \o TmpSuffix)

\* tempfile.Open(dir, name, 0644): the suffix of the working name left out.
TmpNameIsFinal(dir) == FileName(dir, DefaultNix)

\* f.Name() of the file tempfile.Open(dir, name+".tmp", 0644) returns.
TmpName(dir) == FileName(dir, DefaultNix \o TmpSuffix)
FilePaths == UNION {{FinalOf(OutDir(m)), TmpOf(OutDir(m))} : m \in ModulePaths}

\* The tree before the run: a.x/f has a descriptor of an earlier run and a
\* temporary file an interrupted run left; b.x/g has neither.
FsBefore ==
  [f \in FilePaths |->
     IF f = FinalOf(OutDir(ModA)) THEN File(OldData)
     ELSE IF f = TmpOf(OutDir(ModA)) THEN File(StaleData)
     ELSE Absent]

(* ------------------------------- Init ---------------------------------- *)

Idle ==
  /\ wpc = "idle" /\ wdir = <<>> /\ wdata = <<>> /\ anon = Absent
  /\ werr = FALSE /\ prior = fs

\* The subsets of S with at most k elements.
RECURSIVE UpTo(_, _)
UpTo(S, k) ==
  IF k <= 0 THEN {{}}
  ELSE LET prev == UpTo(S, k - 1)
       IN  prev \cup {T \cup {x} : T \in prev, x \in S}

\* The import graphs with at most k imports in which every importing package
\* is a root or a dependency of one: the loader returns nothing else.
RECURSIVE EdgeSets(_, _)
EdgeSets(rs, k) ==
  IF k <= 0 THEN {{}}
  ELSE LET prev == EdgeSets(rs, k - 1)
       IN  prev \cup
           UNION {{E \cup {e} : e \in {c \in CandidateEdges :
                                          c[1] \in Closure(rs, ImportsOf(E))}} :
                  E \in prev}

\* The treatments of the modules `mods` by go.mod, at most k of them other
\* than plain.
RECURSIVE KindChoices(_, _)
KindChoices(mods, k) ==
  IF k <= 0 THEN {[m \in ModulePaths |-> "plain"]}
  ELSE LET prev == KindChoices(mods, k - 1)
       IN  prev \cup
           UNION {{[f EXCEPT ![m] = kd] : kd \in ReplaceKinds \ {"plain"},
                                          m \in {x \in mods : f[x] = "plain"}} :
                  f \in prev}

Init ==
  /\ \E rs \in SUBSET CandidateRoots \ {{}} :
       \E E \in EdgeSets(rs, MaxSize - Cardinality(rs)) :
         LET imp == ImportsOf(E)
             pkgs == Loaded(rs, imp)
             mods == {PkgModule(p) : p \in pkgs} \ {NoModule}
             left == MaxSize - Cardinality(rs) - Cardinality(E)
         IN  \E es \in UpTo(pkgs, left) :
               \E ms \in UpTo(mods, left - Cardinality(es)) :
                 \E kd \in KindChoices(mods \ {WsMod},
                                       left - Cardinality(es) - Cardinality(ms)) :
                   /\ roots = rs /\ imports = imp
                   /\ errs = es /\ modErrs = ms /\ kind = kd
  /\ fs0 = FsBefore
  /\ fs = fs0
  /\ pc = "walk"
  /\ pending = roots /\ seen = {} /\ stack = <<>> /\ modules = <<>>
  /\ paths = <<>> /\ idx = 0 /\ buffer = <<>> /\ hashed = {} /\ written = <<>>
  /\ exitCode = -1 /\ cause = ""
  /\ Idle

(* ------------------------------ the walk ------------------------------- *)

Top == stack[Len(stack)]

Frame(pkg) == [pkg |-> pkg, todo |-> IF pre(pkg) THEN imports[pkg] ELSE {}]

Exit(code, why) ==
  /\ pc' = "exited"
  /\ exitCode' = code
  /\ cause' = why

\* for _, pkg := range pkgs { visit(pkg) }
VisitRoot ==
  /\ pc = "walk" /\ stack = <<>>
  /\ \E r \in pending :
       /\ pending' = pending \ {r}
       /\ IF r \in seen THEN UNCHANGED <<seen, stack>>
          ELSE seen' = seen \cup {r} /\ stack' = <<Frame(r)>>
  /\ UNCHANGED <<loaded, modules, outVars, writeVars, pc, exitCode, cause>>

\* visit(pkg.Imports[path]) for the next import of the package on top.
Descend ==
  /\ pc = "walk" /\ stack # <<>>
  /\ \E c \in Top.todo :
       LET rest == [stack EXCEPT ![Len(stack)].todo = @ \ {c}]
       IN  IF c \in seen THEN stack' = rest /\ UNCHANGED seen
           ELSE seen' = seen \cup {c} /\ stack' = Append(rest, Frame(c))
  /\ UNCHANGED <<loaded, pending, modules, outVars, writeVars, pc, exitCode, cause>>

\* post(pkg), once all imports of pkg have been visited.
PostVisit ==
  /\ pc = "walk" /\ stack # <<>> /\ Top.todo = {}
  /\ LET r == Post(modules, Top.pkg, imports, errs, modErrs, kind)
     IN  /\ modules' = r.mods
         /\ IF r.panic # ""
            THEN Exit(2, r.panic) /\ UNCHANGED stack
            ELSE stack' = SubSeq(stack, 1, Len(stack) - 1)
                 /\ UNCHANGED <<pc, exitCode, cause>>
  /\ UNCHANGED <<loaded, pending, seen, outVars, writeVars>>

\* Visit returns; the module paths are collected and sorted.
WalkDone ==
  /\ pc = "walk" /\ stack = <<>> /\ pending = {}
  /\ pc' = "output"
  /\ paths' = sortPaths(SeqOfSet(DOMAIN modules))
  /\ idx' = 1
  /\ UNCHANGED <<loaded, walkVars, buffer, hashed, written, writeVars, exitCode, cause>>

(* --------------------------- the output loop --------------------------- *)

Cur == modules[paths[idx]]

InLoop == pc = "output" /\ idx \in 1..Len(paths)

\* mod.ReplacePath != "" && mod.ReplacePath[0] == '.'
IsLocalReplace(m) == m.ReplacePath # <<>> /\ m.ReplacePath[1] = "."

\* The vendoring test with the comparison dropped.
IsVendoredAlways(m) == TRUE

\* mod.ReplacePath == "./"+outDir
IsVendored(m) == m.ReplacePath = <<".","/">> \o OutDir(m.Path)

Continue ==
  /\ idx' = idx + 1
  /\ UNCHANGED <<loaded, walkVars, paths, buffer, hashed, written, writeVars,
                 pc, exitCode, cause>>

\* if !mod.IsExternal() { continue }
SkipInternal == InLoop /\ ~IsExternal(Cur) /\ Continue

\* The replace directive points outside the vendoring location: os.Exit(1).
ReplaceMismatch ==
  /\ InLoop /\ IsExternal(Cur)
  /\ IsLocalReplace(Cur) /\ ~IsVendored(Cur)
  /\ Exit(1, "replace")
  /\ UNCHANGED <<loaded, walkVars, outVars, writeVars>>

\* A vendored module gets no descriptor.
SkipVendored ==
  /\ InLoop /\ IsExternal(Cur)
  /\ IsLocalReplace(Cur) /\ IsVendored(Cur)
  /\ Continue

Emitting == InLoop /\ IsExternal(Cur) /\ ~IsLocalReplace(Cur)

\* tmpl.Execute calls ModSHA256, which panics for a module without a Dir.
NoDirPanic ==
  /\ Emitting /\ Cur.Dir = <<>>
  /\ hashed' = hashed \cup {Cur.Path}
  /\ Exit(2, "module without a dir")
  /\ UNCHANGED <<loaded, walkVars, paths, idx, buffer, written, writeVars>>

\* archive.CopyPath fails while the directory is read.
HashFails ==
  /\ Emitting /\ Cur.Dir # <<>>
  /\ hashed' = hashed \cup {Cur.Path}
  /\ Exit(2, "io")
  /\ UNCHANGED <<loaded, walkVars, paths, idx, buffer, written, writeVars>>

\* The descriptor is rendered and writeFile(outDir, "default.nix", ...) called.
RenderAndWrite ==
  /\ Emitting /\ Cur.Dir # <<>>
  /\ hashed' = hashed \cup {Cur.Path}
  /\ buffer' = Render(Cur)
  /\ pc' = "write"
  /\ wpc' = "mkdir" /\ wdir' = OutDir(Cur.Path) /\ wdata' = Render(Cur)
  /\ werr' = FALSE /\ prior' = fs
  /\ UNCHANGED <<loaded, walkVars, paths, idx, written, fs, anon, exitCode, cause>>

\* writeFile returned an error: panic(err).
WriteFailed ==
  /\ pc = "write" /\ wpc = "ret" /\ werr
  /\ wpc' = "idle"
  /\ Exit(2, "io")
  /\ UNCHANGED <<loaded, walkVars, outVars, fs, wdir, wdata, anon, werr, prior>>

\* writeFile returned nil: on to the next module.
WriteDone ==
  /\ pc = "write" /\ wpc = "ret" /\ ~werr
  /\ wpc' = "idle"
  /\ pc' = "output"
  /\ written' = Append(written, paths[idx])
  /\ idx' = idx + 1
  /\ UNCHANGED <<loaded, walkVars, paths, buffer, hashed, fs, wdir, wdata, anon,
                 werr, prior, exitCode, cause>>

\* main returns.
Finish ==
  /\ pc = "output" /\ idx > Len(paths)
  /\ Exit(0, "done")
  /\ UNCHANGED <<loaded, walkVars, outVars, writeVars>>

(* ------------------------------ writeFile ------------------------------ *)

\* A step of writeFile returns its error; the deferred f.Close() drops the
\* file that has no name yet.
Fail ==
  /\ wpc' = "ret" /\ werr' = TRUE /\ anon' = Absent

Caller == <<loaded, walkVars, outVars, pc, exitCode, cause, wdir, wdata, prior>>

\* os.MkdirAll(dir, 0755)
MkdirAll ==
  /\ wpc = "mkdir"
  /\ \E ok \in BOOLEAN :
       IF ok THEN wpc' = "open" /\ UNCHANGED <<werr, anon>> ELSE Fail
  /\ UNCHANGED <<Caller, fs>>

\* tempfile.Open(dir, name+".tmp", 0644): a file in dir without a name.
Open ==
  /\ wpc = "open"
  /\ \E ok \in BOOLEAN :
       IF ok THEN wpc' = "write" /\ anon' = File(<<>>) /\ UNCHANGED werr
       ELSE Fail
  /\ UNCHANGED <<Caller, fs>>

\* f.Write(data): all of data, or an error after part of it.
Write ==
  /\ wpc = "write"
  /\ \E ok \in BOOLEAN :
       IF ok THEN wpc' = "remove" /\ anon' = File(wdata) /\ UNCHANGED werr
       ELSE Fail
  /\ UNCHANGED <<Caller, fs>>

\* os.Remove(f.Name()): a missing file is not an error.
Remove ==
  /\ wpc = "remove"
  /\ \E ok \in BOOLEAN :
       IF ok THEN /\ wpc' = "commit"
                  /\ fs' = [fs EXCEPT ![TmpName(wdir)] = Absent]
                  /\ UNCHANGED <<werr, anon>>
       ELSE Fail /\ UNCHANGED fs
  /\ UNCHANGED Caller

\* tempfile.Commit(f): the file gets the name f.Name().
Commit ==
  /\ wpc = "commit"
  /\ \E ok \in BOOLEAN :
       IF ok THEN /\ wpc' = "rename"
                  /\ fs' = [fs EXCEPT ![TmpName(wdir)] = anon]
                  /\ anon' = Absent
                  /\ UNCHANGED werr
       ELSE Fail /\ UNCHANGED fs
  /\ UNCHANGED Caller

\* os.Rename(from, to): atomic; renaming a file onto itself changes nothing.
Renamed(files, from, to) ==
  IF from = to THEN files
  ELSE [files EXCEPT ![to] = files[from], ![from] = Absent]

\* return os.Rename(f.Name(), filepath.Join(dir, name))
Rename ==
  /\ wpc = "rename"
  /\ \E ok \in BOOLEAN :
       IF ok THEN /\ fs' = Renamed(fs, TmpName(wdir), FileName(wdir, DefaultNix))
                  /\ wpc' = "ret"
                  /\ UNCHANGED <<werr, anon>>
       ELSE Fail /\ UNCHANGED fs
  /\ UNCHANGED Caller

WriteFileStep == MkdirAll \/ Open \/ Write \/ Remove \/ Commit \/ Rename

(* ---------------------------- specifications --------------------------- *)

Next ==
  \/ VisitRoot \/ Descend \/ PostVisit \/ WalkDone
  \/ SkipInternal \/ ReplaceMismatch \/ SkipVendored
  \/ NoDirPanic \/ HashFails \/ RenderAndWrite
  \/ WriteFileStep
  \/ WriteFailed \/ WriteDone \/ Finish

Spec == Init /\ [][Next]_vars

\* writeFile on its own: any payload of at most MaxLines lines, written into
\* a directory that may hold an earlier descriptor and a stale temporary
\* file.
Lines == {<<"path", <<"a">> >>, <<"version", <<"1">> >>}

RECURSIVE Payloads(_)
Payloads(n) ==
  IF n <= 0 THEN {<<>>}
  ELSE LET prev == Payloads(n - 1)
       IN  prev \cup {Append(d, l) : d \in prev, l \in Lines}

InitWrite ==
  /\ roots = {} /\ imports = ImportsOf({}) /\ errs = {} /\ modErrs = {}
  /\ kind = [m \in ModulePaths |-> "plain"]
  /\ pc = "write"
  /\ pending = {} /\ seen = {} /\ stack = <<>> /\ modules = <<>>
  /\ paths = <<>> /\ idx = 0 /\ buffer = <<>> /\ hashed = {} /\ written = <<>>
  /\ exitCode = -1 /\ cause = ""
  /\ wdir \in {OutDir(ModA), OutDir(ModB)}
  /\ wdata \in Payloads(MaxLines)
  /\ \E old \in {Absent, File(OldData), File(<<>>)},
        stale \in {Absent, File(StaleData), File(wdata)} :
       fs0 = [f \in FilePaths |->
                IF f = FinalOf(wdir) THEN old
                ELSE IF f = TmpOf(wdir) THEN stale
                ELSE IF f = FinalOf(OutDir(ModC)) THEN File(OldData)
                ELSE Absent]
  /\ fs = fs0 /\ prior = fs0
  /\ wpc = "mkdir" /\ anon = Absent /\ werr = FALSE

SpecWrite == InitWrite /\ [][WriteFileStep]_vars

(* ------------------ what the loaded workspace determines --------------- *)

\* x sorts before y in byte-wise lexicographic order.
Before(x, y) ==
  \E i \in 1..Len(y) :
    /\ i - 1 <= Len(x)
    /\ \A j \in 1..(i - 1) : x[j] = y[j]
    /\ i > Len(x) \/ Ord(x[i]) < Ord(y[i])

Ascending(s) == \A i \in 1..(Len(s) - 1) : Before(s[i], s[i + 1])

RECURSIVE AscSeq(_)
AscSeq(S) ==
  IF S = {} THEN <<>>
  ELSE LET x == CHOOSE a \in S : \A b \in S \ {a} : Before(a, b)
       IN  <<x>> \o AscSeq(S \ {x})

\* The packages the walk calls post for: the roots and whatever is imported,
\* directly or not, through packages that are not builtin.
RECURSIVE ReachedFrom(_)
ReachedFrom(S) ==
  LET T == S \cup UNION {imports[p] : p \in {x \in S : ~isBuiltin(x)}}
  IN  IF T = S THEN S ELSE ReachedFrom(T)

Reached == ReachedFrom(roots)
Handled == {p \in Reached : ~isBuiltin(p)}
ModulesOf(H) == {PkgModule(p) : p \in H} \ {NoModule}

\* The packages of module D that the packages of module M among H import.
DepsAmong(H, M, D) ==
  {PkgPath(q) : q \in {x \in UNION {imports[p] : p \in {y \in H : PkgModule(y) = M}} :
                         ~isBuiltin(x) /\ PkgModule(x) = D}}

\* The packages of other modules that the packages of module M among H import.
ImportsAmong(H, M) == UNION {DepsAmong(H, M, D) : D \in ModulesOf(H) \ {M}}

\* The modules a descriptor is due for, given the modules of the walk.
Emitted(Ms) ==
  {M \in Ms : /\ ~HasPrefix(M, ExamplePrefix)
              /\ kind[M] \notin {"vendored", "elsewhere"}}

HasError(p) ==
  \/ p \in errs
  \/ PkgModule(p) # NoModule /\ PkgModule(p) \in modErrs

Descriptor(m) == fs[FinalOf(OutDir(m))]

IsDepLine(l) == l[1] = "gopkgs"
IsDepsHeader(l) == l[1] = "deps"

\* The dependency list of a rendered descriptor.
DepEntries(data) ==
  LET ls == SelectSeq(data, IsDepLine) IN [i \in 1..Len(ls) |-> ls[i][2]]

HasDepsBlock(data) == Len(SelectSeq(data, IsDepsHeader)) > 0

OnStack == {stack[i].pkg : i \in 1..Len(stack)}
Processed == seen \ OnStack
WalkCompleted == idx >= 1
AtPost == pc = "walk" /\ stack # <<>> /\ Top.todo = {}
Succeeded == pc = "exited" /\ exitCode = 0

(* ------------------------------- claims -------------------------------- *)

\* C1: at every point of the walk and after it, no Module of the registry is
\* a key of its own Deps map; an import inside a module adds no edge.
C1_NoSelfEdges ==
  \A m \in DOMAIN modules :
    /\ modules[m].Path = m
    /\ m \notin DOMAIN modules[m].Deps

\* C1 witness: a package that imports a package of its own module has been
\* handled, and the run went on to succeed.
C1_Witness ==
  /\ Succeeded
  /\ \E p \in Processed : \E q \in imports[p] :
       PkgModule(p) # NoModule /\ PkgModule(q) = PkgModule(p)

\* C2: whatever order the roots and the imports are visited in, the
\* descriptors are written in ascending order of module path, for exactly
\* the modules the loaded graph determines (all of them in a run that exits
\* 0, an initial stretch of them otherwise); each descriptor has the path,
\* version and digest the loader reported for the module, and its dependency
\* list is the ascending list of the package paths the graph determines.
C2_OutputDeterministic ==
  (written # <<>> \/ Succeeded) =>
    LET H == Handled
        due == Emitted(ModulesOf(H))
    IN  /\ Ascending(written)
        /\ Range(written) \subseteq due
        /\ \A m \in Range(written) : \A e \in due :
             Before(e, m) => e \in Range(written)
        /\ Succeeded => Range(written) = due
        /\ \A m \in Range(written) :
             LET want == AscSeq(ImportsAmong(H, m))
                 info == ModuleInfo(m, kind[m], FALSE)
                 v == IF info.Replace.Nil THEN info.Version
                      ELSE info.Replace.Version
                 data == Descriptor(m).data
             IN  /\ Descriptor(m).exists
                 /\ SubSeq(data, 1, 3)
                      = << <<"path", m>>,
                           <<"version", IF v # <<>> /\ Head(v) = "v" THEN Tail(v) ELSE v>>,
                           <<"sha256", Digest(info.Dir)>> >>
                 /\ DepEntries(data) = [i \in 1..Len(want) |-> NixAttr(want[i])]
                 /\ Len(data) = 3 + (IF want = <<>> THEN 0 ELSE Len(want) + 2)

\* C2 witness: a run from two roots has written two descriptors, one of
\* them with two dependencies.
C2_Witness ==
  /\ Succeeded
  /\ Cardinality(roots) >= 2
  /\ Len(written) >= 2
  /\ \E m \in Range(written) : Len(DepEntries(Descriptor(m).data)) >= 2

FinalUnchanged(dir) == fs[FinalOf(dir)] = prior[FinalOf(dir)]

\* C3: while writeFile runs and after it returns, the file under the final
\* name is its content from before the call until the rename has happened
\* and the complete payload from then on; no file other than the final one
\* and name.tmp changes.
C3_AtomicWrite ==
  wpc # "idle" =>
    /\ wpc # "ret" \/ werr => FinalUnchanged(wdir)
    /\ wpc = "ret" /\ ~werr => fs[FinalOf(wdir)] = File(wdata)
    /\ \A f \in FilePaths \ {FinalOf(wdir), TmpOf(wdir)} : fs[f] = prior[f]

\* C3 witness: the rename failed; the new payload is left in name.tmp and
\* the earlier descriptor is intact under the final name.
C3_Witness ==
  /\ wpc = "ret" /\ werr
  /\ prior[FinalOf(wdir)] = File(OldData)
  /\ fs[FinalOf(wdir)] = File(OldData)
  /\ fs[TmpOf(wdir)] = File(wdata)
  /\ Len(wdata) = MaxLines

NeverEmitted(m) ==
  /\ m \notin Range(written)
  /\ fs[FinalOf(OutDir(m))] = fs0[FinalOf(OutDir(m))]

\* C4 as claimed: an external module with a replace path other than the
\* vendoring location ends the run with a non-zero exit and gets no
\* descriptor.
C4_AnyReplace ==
  \A m \in DOMAIN modules :
    (/\ ~HasPrefix(m, ExamplePrefix)
     /\ modules[m].ReplacePath # <<>>
     /\ modules[m].ReplacePath # Conventional(m))
    => /\ NeverEmitted(m)
       /\ pc = "exited" => exitCode # 0

\* C4, amended: an external module whose replace path starts with "." and
\* is not the vendoring location ends the run with a non-zero exit and gets
\* no descriptor.
C4_LocalReplace ==
  \A m \in DOMAIN modules :
    (/\ ~HasPrefix(m, ExamplePrefix)
     /\ modules[m].ReplacePath # <<>>
     /\ Head(modules[m].ReplacePath) = "."
     /\ modules[m].ReplacePath # Conventional(m))
    => /\ NeverEmitted(m)
       /\ pc = "exited" => exitCode # 0

\* C4 witness: the output loop reached a module replaced by ./v and exited
\* with status 1.
C4_Witness ==
  /\ pc = "exited" /\ exitCode = 1 /\ cause = "replace"
  /\ modules[paths[idx]].ReplacePath = <<".","/","v">>

AbortsInWalk ==
  /\ pc \in {"walk", "exited"}
  /\ pc = "exited" => exitCode # 0
  /\ ~WalkCompleted
  /\ written = <<>>
  /\ fs = fs0

\* C5 as claimed: an error on any package the walk reaches, builtin or not,
\* aborts the run during the walk, with no file written.
C5_AnyReached ==
  ((errs # {} \/ modErrs # {}) /\ \E p \in Reached : HasError(p)) => AbortsInWalk

\* C5, amended: an error on a package that is not builtin and that the walk
\* reaches aborts the run during the walk, with no file written.
C5_ErrorAborts ==
  ((errs # {} \/ modErrs # {}) /\ \E p \in Handled : HasError(p)) => AbortsInWalk

\* C5 witness: the walk stopped at a package with an error after it had
\* registered the module of an error-free package.
C5_Witness ==
  /\ pc = "exited" /\ exitCode = 2 /\ cause = "errors"
  /\ DOMAIN modules # {}
  /\ HasError(Top.pkg)

\* C6 as claimed: the dependency list is there only for a module with
\* dependencies, and has one entry for each module depended on.
C6_OnePerModule ==
  \A m \in Range(written) :
    LET data == Descriptor(m).data
    IN  /\ HasDepsBlock(data) <=> DOMAIN modules[m].Deps # {}
        /\ Len(DepEntries(data)) = Cardinality(DOMAIN modules[m].Deps)

\* C6, amended: the dependency list is there only for a module with
\* dependencies, and has one entry for each distinct package imported from
\* another module, however many packages of the module import it.
C6_OnePerPackage ==
  \A m \in Range(written) :
    LET data == Descriptor(m).data
        deps == modules[m].Deps
        pkgs == UNION {deps[d] : d \in DOMAIN deps}
        entries == DepEntries(data)
    IN  /\ HasDepsBlock(data) <=> DOMAIN deps # {}
        /\ HasDepsBlock(data) <=> Len(entries) > 0
        /\ Len(entries) = Cardinality(pkgs)
        /\ Range(entries) = {NixAttr(q) : q \in pkgs}

\* C6 witness: two packages of a.x/f import the same package of another
\* module and the descriptor of a.x/f lists it once.
C6_Witness ==
  /\ ModA \in Range(written)
  /\ Len(DepEntries(Descriptor(ModA).data)) = 1
  /\ \E q \in PkgIds :
       /\ PkgModule(q) \notin {ModA, NoModule}
       /\ Cardinality({p \in Processed : PkgModule(p) = ModA /\ q \in imports[p]}) >= 2

Moduleless(p) == ~isBuiltin(p) /\ PkgModule(p) = NoModule
PassedOver == pc' = "walk" /\ modules' = modules /\ cause' = ""
Aborted == pc' = "exited" /\ exitCode' = 2

\* C7 as claimed: a module-less package that reaches the module check is
\* passed over when its path ends in ".test" or in "_test", and aborts the
\* run otherwise.
C7_SuffixOnly ==
  [][AtPost /\ Moduleless(Top.pkg) /\ ~HasError(Top.pkg)
       => IF \/ HasSuffix(PkgPath(Top.pkg), DotTest)
             \/ HasSuffix(PkgPath(Top.pkg), UnderTest)
          THEN PassedOver ELSE Aborted]_vars

\* C7, amended: a module-less package that reaches the module check is
\* passed over when its path ends in "_test", or ends in ".test" and the
\* package is named main; any other module-less package aborts the run.
C7_MainDotTest ==
  [][AtPost /\ Moduleless(Top.pkg) /\ ~HasError(Top.pkg)
       => IF \/ HasSuffix(PkgPath(Top.pkg), UnderTest)
             \/ /\ HasSuffix(PkgPath(Top.pkg), DotTest)
                /\ PkgName(Top.pkg) = "main"
          THEN PassedOver ELSE Aborted]_vars

\* C7 witness: the test binary and the _test package were passed over and
\* the run succeeded.
C7_Witness ==
  /\ Succeeded
  /\ {"p.test", "p_test"} \subseteq Processed

Occurrences(s, x) == Cardinality({i \in 1..Len(s) : s[i] = x})

\* C8: a module of the workspace's own namespace, or one replaced by its
\* vendoring location, is never hashed and never gets a descriptor; in a run
\* that exits 0 every other module of the registry has been written once, to
\* third_party/gopkgs/<module path>/default.nix.
C8_WhoGetsADescriptor ==
  \A m \in DOMAIN modules :
    IF HasPrefix(m, ExamplePrefix) \/ modules[m].ReplacePath = Conventional(m)
    THEN /\ NeverEmitted(m)
         /\ m \notin hashed
         /\ fs[TmpOf(OutDir(m))] = fs0[TmpOf(OutDir(m))]
    ELSE Succeeded =>
           /\ Occurrences(written, m) = 1
           /\ fs[ThirdParty \o <<"/">> \o m \o <<"/">> \o DefaultNix].exists
           /\ Head(fs[ThirdParty \o <<"/">> \o m \o <<"/">> \o DefaultNix].data)
                = <<"path", m>>

\* C8 witness: a successful run whose registry holds the workspace module, a
\* vendored module and a module that got its descriptor.
C8_Witness ==
  /\ Succeeded
  /\ WsMod \in DOMAIN modules
  /\ \E m \in DOMAIN modules : modules[m].ReplacePath = Conventional(m)
  /\ written # <<>>

DepSet(M, D) == IF D \in DOMAIN modules[M].Deps THEN modules[M].Deps[D] ELSE {}

\* C9: once the walk has completed, the registry holds the modules of the
\* handled packages, and M.Deps[D], for D other than M, is exactly the set of
\* paths of the packages of D that handled packages of M import.
C9_ExactDeps ==
  WalkCompleted =>
    LET H == Handled
    IN  /\ DOMAIN modules = ModulesOf(H)
        /\ \A M \in DOMAIN modules : \A D \in ModulePaths \ {M} :
             /\ DepSet(M, D) = DepsAmong(H, M, D)
             /\ D \in DOMAIN modules[M].Deps => modules[M].Deps[D] # {}

\* C9 witness: the walk completed with two packages of one module importing
\* the same package of another, which is recorded once, next to a second
\* package of that module.
C9_Witness ==
  /\ WalkCompleted
  /\ \E M \in DOMAIN modules : \E D \in DOMAIN modules[M].Deps :
       /\ Cardinality(modules[M].Deps[D]) >= 1
       /\ \E q \in PkgIds :
            /\ PkgModule(q) = D
            /\ Cardinality({p \in Processed : PkgModule(p) = M /\ q \in imports[p]}) >= 2

\* C10: when post handles the imports of a package, every import that is not
\* builtin has a module, has been handled before, and its module is in the
\* registry; the lookup never yields nil, and every key of every Deps map is
\* in the registry.
C10_DepsRegistered ==
  /\ cause # "nil dereference"
  /\ \A m \in DOMAIN modules : DOMAIN modules[m].Deps \subseteq DOMAIN modules
  /\ (AtPost /\ ~isBuiltin(Top.pkg) /\ ~HasError(Top.pkg)
        /\ PkgModule(Top.pkg) # NoModule) =>
       \A q \in imports[Top.pkg] :
         ~isBuiltin(q) => /\ PkgModule(q) # NoModule
                          /\ q \in Processed
                          /\ PkgModule(q) \in DOMAIN modules

\* C10 witness: post is about to handle a package that imports a package of
\* another module, itself the importer of a third module's package.
C10_Witness ==
  /\ AtPost /\ PkgModule(Top.pkg) = WsMod
  /\ \E q \in imports[Top.pkg] :
       /\ PkgModule(q) = ModA
       /\ DOMAIN modules[ModA].Deps # {}

====
